---- MODULE Spec2Model ----
(***************************************************************************)
(* Model of the thermal printer service.  The repository holds two entry   *)
(* files, each an Express application with its own module-level `printer`  *)
(* object: src/index.js (routes /print and /print/receipt) and             *)
(* src/unnamed/part_000 (routes /print/receipt, /print/deposit and         *)
(* /print/barcode).  The variable `server` says which of the two files the *)
(* process runs.                                                           *)
(*                                                                         *)
(* A handler runs synchronously from its first statement to its            *)
(* `await printer.execute()`; that block is one action (XxxHandler).  The  *)
(* continuation that runs when execute settles (the rest of the try block  *)
(* or the catch block, up to the response) is a second action (XxxResume). *)
(*                                                                         *)
(* The printer object is the node-thermal-printer ThermalPrinter: every    *)
(* method called by the handlers appends to printer.buffer, clear() drops  *)
(* the buffer, execute() hands the buffer it holds when called to the      *)
(* interface and neither clears nor copies it.  The buffer is modelled as  *)
(* the sequence of the commands appended, not as bytes.                    *)
(***************************************************************************)
EXTENDS Integers, Sequences, FiniteSets, TLC

VARIABLES server, printer, req

vars == <<server, printer, req>>

(***************************************************************************)
(* Bounds of the model.                                                    *)
(***************************************************************************)
MaxReq == 2
MaxItems == 3
MaxDigits == 14

Reqs == 1..MaxReq

(***************************************************************************)
(* JavaScript values.  Strings are TLA+ strings; `undefined` (an absent    *)
(* property of the request body) is a value no input string equals.  The   *)
(* strings are kept in ASCII: the source's u-umlaut is written ue and its  *)
(* sharp s is written ss ('Rueckgeld', 'Mainzer Landstrasse 55').          *)
(***************************************************************************)
Undefined == "<undefined>"

\* A property of the request body that holds the JSON number 4711.
NumberValue == "<number 4711>"

\* typeof v === 'string'
IsString(v) == v # Undefined /\ v # NumberValue

\* if (v): undefined and the empty string are falsy.
Truthy(v) == v # Undefined /\ v # ""

\* `${v}` in a template literal.
Str(v) ==
  IF v = Undefined THEN "undefined" ELSE IF v = NumberValue THEN "4711" ELSE v

\* String.prototype.includes
Includes(s, sub) ==
  \E i \in 1..(Len(s) - Len(sub) + 1) : SubSeq(s, i, i + Len(sub) - 1) = sub

Upper == "ABCDEFGHIJKLMNOPQRSTUVWXYZ"
Lower == "abcdefghijklmnopqrstuvwxyz"

UpperChars == {SubSeq(Upper, i, i) : i \in 1..Len(Upper)}

LowerOf ==
  [c \in UpperChars |->
     LET i == CHOOSE j \in 1..Len(Upper) : SubSeq(Upper, j, j) = c
     IN SubSeq(Lower, i, i)]

LowerChar(c) == IF c \in UpperChars THEN LowerOf[c] ELSE c

\* String.prototype.toLowerCase
RECURSIVE ToLowerCase(_)
ToLowerCase(s) ==
  IF s = "" THEN "" ELSE LowerChar(SubSeq(s, 1, 1)) \o ToLowerCase(Tail(s))

(***************************************************************************)
(* Printer commands and the printer object.                                *)
(***************************************************************************)
Cmd(op, a, b) == [op |-> op, a |-> a, b |-> b]

Clear == Cmd("Clear", "", "")
AlignLeft == Cmd("AlignLeft", "", "")
AlignCenter == Cmd("AlignCenter", "", "")
AlignRight == Cmd("AlignRight", "", "")
Bold(on) == Cmd("Bold", on, "")
SetTextSize(h, w) == Cmd("TextSize", h, w)
SetTextNormal == Cmd("TextNormal", "", "")
DrawLine == Cmd("DrawLine", "", "")
NewLine == Cmd("NewLine", "", "")
Cut == Cmd("Cut", "", "")
SetCharacterSet(cs) == Cmd("SetCharacterSet", cs, "")

\* The outcome of a block of statements: the printer calls it made, in
\* order, and whether it ended by throwing.
Ok(calls) == [calls |-> calls, threw |-> FALSE]
Throw(calls) == [calls |-> calls, threw |-> TRUE]

\* s1; s2
Then(r1, r2) ==
  IF r1.threw THEN r1 ELSE [calls |-> r1.calls \o r2.calls, threw |-> r2.threw]

\* try { s } catch (e) { console.error(...) }
Try(r) == Ok(r.calls)

\* printer.println(text): text.toString() throws on undefined.
Println(text) ==
  IF text = Undefined THEN Throw(<<>>) ELSE Ok(<<Cmd("Println", text, "")>>)

\* printer.leftRight(left, right): appends left, the padding, right and a
\* line feed; left.toString() and right.toString() throw on undefined, the
\* latter after left has been appended.
LeftRight(left, right) ==
  IF left = Undefined THEN Throw(<<>>)
  ELSE IF right = Undefined THEN Throw(<<Cmd("Text", left, "")>>)
  ELSE Ok(<<Cmd("LeftRight", left, right)>>)

\* s1; s2; ...; sn
RECURSIVE Block(_)
Block(rs) ==
  IF rs = <<>> THEN Ok(<<>>) ELSE Then(Head(rs), Block(Tail(rs)))

\* items.forEach(item => ...), given the outcome of the callback on each
\* item in turn: an exception the callback throws ends the loop.
ForEach(outcomes) == Block(outcomes)

\* The printer object after a run of calls.
RECURSIVE Run(_, _)
Run(p, calls) ==
  IF calls = <<>> THEN p
  ELSE LET c == Head(calls)
           q == CASE c.op = "Clear" -> [p EXCEPT !.buffer = <<>>]
                  [] c.op = "SetCharacterSet" -> [p EXCEPT !.characterSet = c.a]
                  [] OTHER -> [p EXCEPT !.buffer = Append(@, c)]
       IN Run(q, Tail(calls))

\* The commands a run of calls appends to the buffer.
Appended(calls) ==
  SelectSeq(calls, LAMBDA c : c.op \notin {"Clear", "SetCharacterSet"})

(***************************************************************************)
(* src/index.js: POST /print                                               *)
(***************************************************************************)
\* The statements of the handler from `if (content.text)` to the cut.
BuildPrint(content) ==
  Block(<<
    IF Truthy(content.text) THEN Println(content.text) ELSE Ok(<<>>),
    Ok(IF content.alignCenter THEN <<AlignCenter>> ELSE <<>>),
    Ok(IF content.alignLeft THEN <<AlignLeft>> ELSE <<>>),
    Ok(IF content.alignRight THEN <<AlignRight>> ELSE <<>>),
    Ok(IF content.drawLine THEN <<DrawLine>> ELSE <<>>),
    IF Truthy(content.title)
    THEN Block(<<Ok(<<AlignCenter, Bold("true")>>), Println(content.title),
                 Ok(<<Bold("false"), DrawLine>>)>>)
    ELSE Ok(<<>>),
    IF content.itemsIsArray
    THEN ForEach([i \in 1..Len(content.items) |-> Println(content.items[i])])
    ELSE Ok(<<>>),
    Ok(IF content.cut THEN <<Cut>> ELSE <<>>)
  >>)

(***************************************************************************)
(* src/index.js: POST /print/receipt                                       *)
(***************************************************************************)
\* The skip test of the first loop.
IsSpecialIndex(name) ==
  \/ Includes(name, "Rabatt")
  \/ Includes(name, "Gutschrift")
  \/ name = "Zahlungsart"
  \/ name = "Rueckgeld"

\* item.name.includes(...): a TypeError when name is not a string.
NameOf(item) == IF item.name = Undefined THEN Throw(<<>>) ELSE Ok(<<>>)

\* The description line under an item.
DescriptionLine(item) ==
  IF Truthy(item.description)
  THEN Block(<<Ok(<<SetTextSize("0", "0")>>), Println("  " \o item.description),
               Ok(<<SetTextNormal>>)>>)
  ELSE Ok(<<>>)

\* The first loop without its try/catch: a nameless item ends the loop and
\* the request.
RegularItemIndexNoTry(item) ==
  Then(NameOf(item),
       IF item.name # Undefined /\ IsSpecialIndex(item.name)
       THEN Ok(<<>>)
       ELSE Then(LeftRight(item.name, item.price), DescriptionLine(item)))

\* The first loop without its skip test: special items are printed with
\* the regular ones and again by the deferred loops.
RegularItemIndexNoSkip(item) ==
  Try(Then(NameOf(item),
           Then(LeftRight(item.name, item.price), DescriptionLine(item))))

\* Body of the first loop.
RegularItemIndex(item) ==
  Try(Then(NameOf(item),
           IF item.name # Undefined /\ IsSpecialIndex(item.name)
           THEN Ok(<<>>)
           ELSE Then(LeftRight(item.name, item.price), DescriptionLine(item))))

\* hasDiscountItems set for every item, not only for the skipped ones.
HasDiscountItemsAnyItem(items) == \E i \in 1..Len(items) : items[i].name # Undefined

\* let hasDiscountItems, set by the first loop.
HasDiscountItemsIndex(items) ==
  \E i \in 1..Len(items) :
     items[i].name # Undefined /\ IsSpecialIndex(items[i].name)

\* Bodies of the three deferred loops.
DiscountItemIndex(item) ==
  Try(Then(NameOf(item),
           IF /\ item.name # Undefined
              /\ (Includes(item.name, "Rabatt") \/ Includes(item.name, "Gutschrift"))
           THEN LeftRight(item.name, item.price)
           ELSE Ok(<<>>)))

\* The payment loop with the name compared without case, unlike the skip
\* test of the first loop.
PaymentItemIndexFold(item) ==
  Try(Then(NameOf(item),
           IF item.name # Undefined /\ ToLowerCase(item.name) = "zahlungsart"
           THEN LeftRight(item.name, item.price)
           ELSE Ok(<<>>)))

PaymentItemIndex(item) ==
  Try(Then(NameOf(item),
           IF item.name = "Zahlungsart"
           THEN LeftRight(item.name, item.price)
           ELSE Ok(<<>>)))

ChangeItemIndex(item) ==
  Try(Then(NameOf(item),
           IF item.name = "Rueckgeld"
           THEN LeftRight(item.name, item.price)
           ELSE Ok(<<>>)))

\* if (items && Array.isArray(items)) { ... }
ItemsIndex(body) ==
  LET items == body.items
      n == Len(items)
  IN IF ~body.itemsIsArray THEN Ok(<<>>)
     ELSE Then(ForEach([i \in 1..n |-> RegularItemIndex(items[i])]),
               IF HasDiscountItemsIndex(items)
               THEN Block(<<Ok(<<DrawLine, Bold("true")>>),
                            LeftRight("ZWISCHENSUMME:", body.total),
                            Ok(<<Bold("false")>>),
                            ForEach([i \in 1..n |-> DiscountItemIndex(items[i])]),
                            Ok(<<DrawLine>>),
                            ForEach([i \in 1..n |-> PaymentItemIndex(items[i])]),
                            ForEach([i \in 1..n |-> ChangeItemIndex(items[i])])>>)
               ELSE Ok(<<>>))

\* printer.printQR(data, options); qrFails is the library call throwing.
PrintQR(data, options, qrFails) ==
  IF qrFails THEN Throw(<<>>) ELSE Ok(<<Cmd("PrintQR", data, options)>>)

\* The QR block without its try/catch.
QRIndexNoTry(body, qrFails) ==
  Block(<<Ok(<<NewLine, AlignCenter>>),
          PrintQR("RECEIPT:" \o Str(body.orderNumber), "model2,cell6,M", qrFails),
          Ok(<<NewLine>>),
          Println("Scannen Sie fuer die digitale Quittung"),
          Ok(<<NewLine>>)>>)

\* try { newLine; alignCenter; printQR; ... } catch (qrError) { }
QRIndex(body, qrFails) ==
  Try(Block(<<Ok(<<NewLine, AlignCenter>>),
              PrintQR("RECEIPT:" \o Str(body.orderNumber), "model2,cell6,M", qrFails),
              Ok(<<NewLine>>),
              Println("Scannen Sie fuer die digitale Quittung"),
              Ok(<<NewLine>>)>>))

\* if (printerConfig) { try { if (printerConfig.characterSet) ... } catch {} }
ConfigIndex(body) ==
  Ok(IF Truthy(body.characterSet) THEN <<SetCharacterSet(body.characterSet)>> ELSE <<>>)

\* The statements of the handler up to printer.cut().
BuildReceiptIndex(body, qrFails) ==
  Block(<<
    ConfigIndex(body),
    Ok(<<Clear, AlignCenter, SetTextSize("1", "1"), Bold("true")>>),
    Println(IF Truthy(body.title) THEN body.title ELSE "KAUFBELEG"),
    Ok(<<Bold("false"), SetTextNormal, NewLine, AlignLeft>>),
    IF Truthy(body.orderNumber)
    THEN Println("Beleg-Nr.: " \o body.orderNumber) ELSE Ok(<<>>),
    IF Truthy(body.date) THEN Println("Datum: " \o body.date) ELSE Ok(<<>>),
    Ok(<<DrawLine>>),
    ItemsIndex(body),
    Ok(<<DrawLine>>),
    IF Truthy(body.total)
    THEN Block(<<Ok(<<Bold("true"), SetTextSize("0", "1")>>),
                 LeftRight("GESAMTBETRAG:", body.total),
                 Ok(<<SetTextNormal, Bold("false")>>)>>)
    ELSE Ok(<<>>),
    Ok(<<NewLine, AlignCenter>>),
    Println("Enthaltene MwSt. 19%"),
    Ok(<<NewLine>>),
    Println("BankLy LLC German Branch"),
    Println("Mainzer Landstrasse 55"),
    Println("60325 Frankfurt, Germany"),
    IF Truthy(body.footerText)
    THEN Block(<<Ok(<<NewLine, AlignCenter, Bold("true")>>),
                 Println(body.footerText), Ok(<<Bold("false")>>)>>)
    ELSE Ok(<<>>),
    QRIndex(body, qrFails),
    Ok(<<Cut>>)
  >>)

(***************************************************************************)
(* src/unnamed/part_000: POST /print/receipt                               *)
(***************************************************************************)
\* The payment-detail test of the second loop.
IsPaymentDetail(name) ==
  \/ ToLowerCase(name) = "zahlungsart"
  \/ ToLowerCase(name) = "gegeben"
  \/ ToLowerCase(name) = "rueckgeld"

\* const isDiscountOrMeta, computed alike in both loops.
IsDiscountOrMeta(name) ==
  \/ Includes(name, "Rabatt")
  \/ Includes(name, "Gutschrift")
  \/ IsPaymentDetail(name)

\* The first loop without its try/catch.
RegularItemPartNoTry(item) ==
  Then(NameOf(item),
       IF item.name # Undefined /\ IsDiscountOrMeta(item.name)
       THEN Ok(<<>>)
       ELSE Then(LeftRight(item.name, item.price), DescriptionLine(item)))

\* Body of the first loop.
RegularItemPart(item) ==
  Try(Then(NameOf(item),
           IF item.name # Undefined /\ IsDiscountOrMeta(item.name)
           THEN Ok(<<>>)
           ELSE Then(LeftRight(item.name, item.price), DescriptionLine(item))))

\* let hasDiscountItems, set by the first loop.
HasDiscountItemsPart(items) ==
  \E i \in 1..Len(items) :
     items[i].name # Undefined /\ IsDiscountOrMeta(items[i].name)

\* Body of the second loop.
DetailItemPart(item) ==
  Try(Then(NameOf(item),
           IF item.name # Undefined /\ IsDiscountOrMeta(item.name)
           THEN IF IsPaymentDetail(item.name)
                THEN Block(<<Ok(<<SetTextSize("0", "0")>>),
                             LeftRight(item.name \o ":", item.price),
                             Ok(<<SetTextNormal>>)>>)
                ELSE LeftRight(item.name, item.price)
           ELSE Ok(<<>>)))

\* if (items && Array.isArray(items)) { ... }
ItemsPart(body) ==
  LET items == body.items
      n == Len(items)
  IN IF ~body.itemsIsArray THEN Ok(<<>>)
     ELSE Then(ForEach([i \in 1..n |-> RegularItemPart(items[i])]),
               IF HasDiscountItemsPart(items)
               THEN Block(<<Ok(<<Cmd("DrawLine", "-", "")>>),
                            ForEach([i \in 1..n |-> DetailItemPart(items[i])]),
                            Ok(<<DrawLine>>)>>)
               ELSE Ok(<<DrawLine>>))

QRPart(body, qrFails) ==
  Try(Then(Ok(<<AlignCenter>>),
           IF Truthy(body.orderNumber)
           THEN Then(PrintQR("RECEIPT:" \o Str(body.orderNumber), "cell5,M,model2",
                             qrFails),
                     Ok(<<NewLine>>))
           ELSE Ok(<<>>)))

\* The header and meta block without the printer.clear() that opens it.
HeaderPartNoClear(body, defaultTitle) ==
  Block(<<
    Ok(<<AlignCenter, SetTextSize("1", "1"), Bold("true")>>),
    Println(IF Truthy(body.title) THEN body.title ELSE defaultTitle),
    Ok(<<Bold("false"), SetTextNormal, NewLine, AlignLeft, SetTextSize("0", "0")>>),
    IF Truthy(body.orderNumber)
    THEN Println("Beleg-Nr.: " \o Str(body.orderNumber)) ELSE Ok(<<>>),
    IF Truthy(body.date) THEN Println("Datum: " \o body.date) ELSE Ok(<<>>),
    Ok(<<SetTextNormal, DrawLine>>)
  >>)

\* The header and meta block shared by the receipt and the deposit slip.
HeaderPart(body, defaultTitle) ==
  Block(<<
    Ok(<<Clear, AlignCenter, SetTextSize("1", "1"), Bold("true")>>),
    Println(IF Truthy(body.title) THEN body.title ELSE defaultTitle),
    Ok(<<Bold("false"), SetTextNormal, NewLine, AlignLeft, SetTextSize("0", "0")>>),
    IF Truthy(body.orderNumber)
    THEN Println("Beleg-Nr.: " \o Str(body.orderNumber)) ELSE Ok(<<>>),
    IF Truthy(body.date) THEN Println("Datum: " \o body.date) ELSE Ok(<<>>),
    Ok(<<SetTextNormal, DrawLine>>)
  >>)

\* if (total) { ... }
TotalPart(label, total) ==
  IF Truthy(total)
  THEN Block(<<Ok(<<Bold("true"), SetTextSize("1", "1")>>),
               LeftRight(label, total),
               Ok(<<SetTextNormal, Bold("false")>>)>>)
  ELSE Ok(<<>>)

\* The statements of the handler up to printer.cut().
BuildReceiptPart(body, qrFails) ==
  Block(<<
    HeaderPart(body, "KAUFBELEG"),
    ItemsPart(body),
    TotalPart("GESAMT:", body.total),
    Ok(<<NewLine, AlignCenter, SetTextSize("0", "0")>>),
    Println("Enthaltene MwSt. 19%"),
    Ok(<<SetTextNormal, NewLine>>),
    Println("BankLy LLC German Branch"),
    Println("Mainzer Landstrasse 55"),
    Println("60325 Frankfurt, Germany"),
    Ok(<<NewLine>>),
    QRPart(body, qrFails),
    IF Truthy(body.footerText)
    THEN Block(<<Ok(<<AlignCenter>>), Println(body.footerText), Ok(<<NewLine>>)>>)
    ELSE Ok(<<>>),
    Ok(<<Cut>>)
  >>)

(***************************************************************************)
(* src/unnamed/part_000: POST /print/deposit                               *)
(***************************************************************************)
\* s.replace(/\\D/g, ''): the pattern is a backslash followed by D.
RECURSIVE RemoveBackslashD(_)
RemoveBackslashD(s) ==
  IF Len(s) < 2 THEN s
  ELSE IF SubSeq(s, 1, 2) = "\\D" THEN RemoveBackslashD(SubSeq(s, 3, Len(s)))
  ELSE SubSeq(s, 1, 1) \o RemoveBackslashD(Tail(s))

\* s.padStart(n, '0')
RECURSIVE PadStart(_, _)
PadStart(s, n) == IF Len(s) >= n THEN s ELSE PadStart("0" \o s, n)

\* The barcode value of the deposit slip.
BarcodeValueDeposit(orderNumber) ==
  LET v == RemoveBackslashD(orderNumber)
  IN IF Len(v) = 13 THEN SubSeq(v, 1, 12)
     ELSE IF Len(v) < 12 THEN PadStart(v, 12)
     ELSE IF Len(v) > 12 THEN SubSeq(v, Len(v) - 11, Len(v))
     ELSE v

\* printer.printBarcode(data, 67, options); barcodeFails is the call throwing.
PrintBarcode(data, barcodeFails) ==
  IF barcodeFails THEN Throw(<<>>)
  ELSE Ok(<<Cmd("PrintBarcode", data, "67,hriPos2,hriFont0,width3,height80")>>)

BarcodeDeposit(body, barcodeFails) ==
  Try(IF Truthy(body.orderNumber)
      THEN Block(<<Ok(<<AlignCenter>>),
                   \* orderNumber.replace is not a function on a number
                   IF IsString(body.orderNumber) THEN Ok(<<>>) ELSE Throw(<<>>),
                   PrintBarcode(BarcodeValueDeposit(body.orderNumber), barcodeFails),
                   Ok(<<NewLine>>)>>)
      ELSE Ok(<<>>))

DepositItem(item) ==
  Try(Then(LeftRight(item.name, item.price), DescriptionLine(item)))

\* The statements of the handler up to printer.cut().
BuildDeposit(body, barcodeFails) ==
  Block(<<
    HeaderPart(body, "PFANDBON"),
    IF body.itemsIsArray
    THEN ForEach([i \in 1..Len(body.items) |-> DepositItem(body.items[i])])
    ELSE Ok(<<>>),
    Ok(<<DrawLine>>),
    TotalPart("GESAMT PFAND:", body.total),
    Ok(<<NewLine, AlignCenter, SetTextSize("0", "0")>>),
    Println("BankLy LLC German Branch"),
    Println("Mainzer Landstrasse 55"),
    Println("60325 Frankfurt, Germany"),
    Ok(<<SetTextNormal, NewLine>>),
    BarcodeDeposit(body, barcodeFails),
    Ok(<<Cut>>)
  >>)

(***************************************************************************)
(* src/unnamed/part_000: POST /print/barcode                               *)
(***************************************************************************)
IsDigit(c) == c \in {"0", "1", "2", "3", "4", "5", "6", "7", "8", "9"}

\* s.replace(/\D/g, '')
RECURSIVE RemoveNonDigits(_)
RemoveNonDigits(s) ==
  IF s = "" THEN ""
  ELSE (IF IsDigit(SubSeq(s, 1, 1)) THEN SubSeq(s, 1, 1) ELSE "")
       \o RemoveNonDigits(Tail(s))

\* if (!id || typeof id !== 'string') return res.status(400)
IdAccepted(id) == Truthy(id) /\ IsString(id)

\* The length test on the cleaned id; FALSE is the second 400 response.
LengthAccepted(id) == Len(RemoveNonDigits(id)) \in {12, 13}

\* The barcode value of the standalone barcode.
BarcodeValueBarcode(id) ==
  LET v == RemoveNonDigits(id)
  IN IF Len(v) = 13 THEN SubSeq(v, 1, 12) ELSE v

\* The barcode sequence without its cut.
BuildBarcodeNoCut(body, barcodeFails) ==
  Block(<<
    Ok(<<Clear, AlignCenter>>),
    PrintBarcode(BarcodeValueBarcode(body.id), barcodeFails),
    Ok(<<NewLine>>)
  >>)

\* From printer.clear() to printer.cut(); a throw is printBarcode's, and
\* its catch block clears the printer and returns the 500 response.
BuildBarcode(body, barcodeFails) ==
  Block(<<
    Ok(<<Clear, AlignCenter>>),
    PrintBarcode(BarcodeValueBarcode(body.id), barcodeFails),
    Ok(<<NewLine, Cut>>)
  >>)

(***************************************************************************)
(* Requests.  A request is idle until it arrives, executing while its      *)
(* handler awaits printer.execute(), and done once the response is sent.   *)
(*   own      the commands the handler appended to the buffer              *)
(*   handed   the buffer printer.execute() was called with                 *)
(*   charset  the character set of the printer when execute() was called   *)
(*   executed the handler called printer.execute()                         *)
(*   outcome  how execute settled: "ok" or the error's code                *)
(*   status   the HTTP status of the response                              *)
(*   error    the `error` property of the response body, "" when absent    *)
(*   cleared  the handler called printer.clear() after execute settled or  *)
(*            after the fault that ended it, before it sent the response   *)
(***************************************************************************)
NoBody == [none |-> TRUE]

IdleReq ==
  [pc |-> "idle", handler |-> "", body |-> NoBody, fault |-> FALSE,
   own |-> <<>>, handed |-> <<>>, charset |-> "", executed |-> FALSE,
   outcome |-> "", status |-> 0, cleared |-> FALSE, error |-> ""]

\* const printer = new ThermalPrinter({...}), of either entry file.
NewPrinter(file) ==
  [buffer |-> <<>>,
   characterSet |-> IF file = "index" THEN "SLOVENIA" ELSE "WPC1252"]

Init ==
  /\ server \in {"index", "part"}
  /\ printer = NewPrinter(server)
  /\ req = [r \in Reqs |-> IdleReq]

\* The handler made `calls` and now awaits printer.execute().
Await(r, h, body, fault, calls) ==
  LET p == Run(printer, calls)
  IN /\ printer' = p
     /\ req' = [req EXCEPT ![r] =
                  [@ EXCEPT !.pc = "executing", !.handler = h, !.body = body,
                            !.fault = fault, !.own = Appended(calls),
                            !.handed = p.buffer, !.charset = p.characterSet,
                            !.executed = TRUE]]

\* The handler made `calls` and sent a response without calling execute.
Reply(r, h, body, fault, calls, status, cleared, error) ==
  /\ printer' = Run(printer, calls)
  /\ req' = [req EXCEPT ![r] =
               [@ EXCEPT !.pc = "done", !.handler = h, !.body = body,
                         !.fault = fault, !.own = Appended(calls),
                         !.status = status, !.cleared = cleared,
                         !.error = error]]

\* execute settled with outcome o; the handler made `calls` and responded.
Settle(r, o, calls, status, cleared, error) ==
  /\ printer' = Run(printer, calls)
  /\ req' = [req EXCEPT ![r] =
               [@ EXCEPT !.pc = "done", !.outcome = o, !.status = status,
                         !.cleared = cleared, !.error = error]]

\* The error printer.execute() rejects with, by its code; the error of the
\* last outcome carries no message.
ExecError(o) ==
  [code |-> o,
   message |-> CASE o = "ECONNREFUSED" -> "connect ECONNREFUSED"
                 [] o = "EPERM" -> "operation not permitted"
                 [] OTHER -> ""]

\* The TypeError (or library error) a printer call throws while the
\* sequence is built: it has no code.
BuildError == [code |-> "", message |-> "Cannot read properties of undefined"]

\* error.message || fallback
MessageOr(error, fallback) ==
  IF error.message # "" THEN error.message ELSE fallback

\* The message of the outer catch of POST /print/receipt of index.js.
OuterCatchIndex(error) ==
  IF error.code = "ECONNREFUSED"
  THEN "Drucker nicht erreichbar. Bitte ueberpruefen Sie die Verbindung."
  ELSE IF error.code = "EPERM"
  THEN "Keine Berechtigung zum Zugriff auf den Drucker."
  ELSE error.message

\* The message of the outer catch of the receipt and deposit handlers of
\* part_000; `unknown` is the text used for an error without message.
OuterCatchPart(error, unknown) ==
  IF error.code = "ECONNREFUSED"
  THEN "Drucker nicht erreichbar. Bitte ueberpruefen Sie die Verbindung und den Druckerservice."
  ELSE IF error.code = "EPERM"
  THEN "Keine Berechtigung zum Zugriff auf den Drucker."
  ELSE MessageOr(error, unknown)

Awaiting(r, h) == req[r].pc = "executing" /\ req[r].handler = h

\* Requests are numbered in their order of arrival.
Arrives(r) == req[r].pc = "idle" /\ \A q \in 1..(r - 1) : req[q].pc # "idle"

\* The ways printer.execute() settles.
ExecOutcomes == {"ok", "ECONNREFUSED", "EPERM", "EOTHER"}

\* The outcomes tried when one receipt is rendered.
RenderOutcomes == {"ok", "ECONNREFUSED"}

(***************************************************************************)
(* src/index.js                                                            *)
(***************************************************************************)
PrintHandler(r, body) ==
  /\ server = "index"
  /\ Arrives(r)
  /\ UNCHANGED server
  /\ IF ~body.hasContent
     THEN Reply(r, "print", body, FALSE, <<>>, 400, FALSE,
                "No content provided for printing")
     ELSE LET b == BuildPrint(body.content)
          IN IF b.threw
             THEN Reply(r, "print", body, FALSE, b.calls, 500, FALSE,
                        BuildError.message)
             ELSE Await(r, "print", body, FALSE, b.calls)

PrintResume(r, o) ==
  /\ server = "index"
  /\ Awaiting(r, "print")
  /\ UNCHANGED server
  /\ IF o = "ok"
     THEN Settle(r, o, <<Clear>>, 200, TRUE, "")
     ELSE Settle(r, o, <<>>, 500, FALSE, ExecError(o).message)

ReceiptHandlerIndex(r, body, qrFails) ==
  /\ server = "index"
  /\ Arrives(r)
  /\ UNCHANGED server
  /\ LET b == BuildReceiptIndex(body, qrFails)
     IN IF b.threw
        THEN Reply(r, "receipt", body, qrFails, b.calls \o <<Clear>>, 500, TRUE,
                   OuterCatchIndex(BuildError))
        ELSE Await(r, "receipt", body, qrFails, b.calls)

ReceiptResumeIndex(r, o) ==
  /\ server = "index"
  /\ Awaiting(r, "receipt")
  /\ UNCHANGED server
  /\ IF o = "ok"
     THEN Settle(r, o, <<Clear>>, 200, TRUE, "")
     ELSE Settle(r, o, <<>>, 500, FALSE,
                 MessageOr(ExecError(o), "Fehler beim Drucken"))

(***************************************************************************)
(* src/unnamed/part_000                                                    *)
(***************************************************************************)
\* try { await printer.execute(); res.json(...) } catch { clear; 500 }
ResumePart(r, o) ==
  IF o = "ok"
  THEN Settle(r, o, <<>>, 200, FALSE, "")
  ELSE Settle(r, o, <<Clear>>, 500, TRUE,
              MessageOr(ExecError(o), "Fehler beim Drucken"))

ReceiptHandlerPart(r, body, qrFails) ==
  /\ server = "part"
  /\ Arrives(r)
  /\ UNCHANGED server
  /\ LET b == BuildReceiptPart(body, qrFails)
     IN IF b.threw
        THEN Reply(r, "receipt", body, qrFails, b.calls \o <<Clear>>, 500, TRUE,
                   OuterCatchPart(BuildError,
                     "Ein unbekannter Fehler ist bei der Belegerstellung aufgetreten."))
        ELSE Await(r, "receipt", body, qrFails, b.calls)

ReceiptResumePart(r, o) ==
  /\ server = "part"
  /\ Awaiting(r, "receipt")
  /\ UNCHANGED server
  /\ ResumePart(r, o)

DepositHandler(r, body, barcodeFails) ==
  /\ server = "part"
  /\ Arrives(r)
  /\ UNCHANGED server
  /\ LET b == BuildDeposit(body, barcodeFails)
     IN IF b.threw
        THEN Reply(r, "deposit", body, barcodeFails, b.calls \o <<Clear>>, 500, TRUE,
                   OuterCatchPart(BuildError,
                     "Ein unbekannter Fehler ist bei der Pfandbonerstellung aufgetreten."))
        ELSE Await(r, "deposit", body, barcodeFails, b.calls)

DepositResume(r, o) ==
  /\ server = "part"
  /\ Awaiting(r, "deposit")
  /\ UNCHANGED server
  /\ ResumePart(r, o)

\* The handler with printer.clear() moved before the tests of the id.
BarcodeHandlerClearFirst(r, body, barcodeFails) ==
  /\ server = "part"
  /\ Arrives(r)
  /\ UNCHANGED server
  /\ IF ~IdAccepted(body.id) \/ ~LengthAccepted(body.id)
     THEN Reply(r, "barcode", body, barcodeFails, <<Clear>>, 400, FALSE, "")
     ELSE LET b == BuildBarcode(body, barcodeFails)
          IN IF b.threw
             THEN Reply(r, "barcode", body, barcodeFails, b.calls \o <<Clear>>,
                        500, TRUE, MessageOr(BuildError, "Error generating barcode"))
             ELSE Await(r, "barcode", body, barcodeFails, b.calls)

BarcodeHandler(r, body, barcodeFails) ==
  /\ server = "part"
  /\ Arrives(r)
  /\ UNCHANGED server
  /\ IF ~IdAccepted(body.id) \/ ~LengthAccepted(body.id)
     THEN Reply(r, "barcode", body, barcodeFails, <<>>, 400, FALSE, "")
     ELSE LET b == BuildBarcode(body, barcodeFails)
          IN IF b.threw
             THEN Reply(r, "barcode", body, barcodeFails, b.calls \o <<Clear>>,
                        500, TRUE, MessageOr(BuildError, "Error generating barcode"))
             ELSE Await(r, "barcode", body, barcodeFails, b.calls)

BarcodeResume(r, o) ==
  /\ server = "part"
  /\ Awaiting(r, "barcode")
  /\ UNCHANGED server
  /\ ResumePart(r, o)

(***************************************************************************)
(* Request bodies.                                                         *)
(***************************************************************************)
Item(name, price, description) ==
  [name |-> name, price |-> price, description |-> description]

Cola == Item("Cola", "2,50", "0,5l")
Bier == Item("Bier", "3,00", Undefined)
Rabatt == Item("10% Rabatt", "-0,55", Undefined)
Gutschrift == Item("Gutschrift", "-1,00", Undefined)
Zahlungsart == Item("Zahlungsart", "Bar", Undefined)
Rueckgeld == Item("Rueckgeld", "4,05", Undefined)
Gegeben == Item("Gegeben", "10,00", Undefined)
KleinZahlungsart == Item("zahlungsart", "Karte", Undefined)
NoName == Item(Undefined, "1,00", Undefined)
EmptyName == Item("", "1,00", Undefined)

Items == {Cola, Bier, Rabatt, Zahlungsart, Rueckgeld, Gegeben, NoName, EmptyName}

MoreItems == Items \cup {Gutschrift, KleinZahlungsart}

\* The lists of at most n items of a set.
ItemLists(set, n) == UNION {[1..k -> set] : k \in 0..n}

Order(title, itemsIsArray, items, total, date, orderNumber, footerText, cs) ==
  [title |-> title, itemsIsArray |-> itemsIsArray, items |-> items,
   total |-> total, date |-> date, orderNumber |-> orderNumber,
   footerText |-> footerText, characterSet |-> cs]

Content(text, center, left, right, line, title, itemsIsArray, items, cut) ==
  [text |-> text, alignCenter |-> center, alignLeft |-> left,
   alignRight |-> right, drawLine |-> line, title |-> title,
   itemsIsArray |-> itemsIsArray, items |-> items, cut |-> cut]

NoContent ==
  Content(Undefined, FALSE, FALSE, FALSE, FALSE, Undefined, FALSE, <<>>, TRUE)

\* Bodies of POST /print.
PrintBodies ==
  {[hasContent |-> FALSE, content |-> NoContent],
   [hasContent |-> TRUE,
    content |-> Content("Hallo", FALSE, TRUE, FALSE, FALSE, Undefined, FALSE, <<>>,
                        TRUE)],
   [hasContent |-> TRUE,
    content |-> Content(Undefined, TRUE, FALSE, TRUE, TRUE, "BON", TRUE, <<"a", "b">>,
                        FALSE)],
   [hasContent |-> TRUE,
    content |-> Content(Undefined, FALSE, FALSE, FALSE, FALSE, Undefined, TRUE,
                        <<"a", Undefined>>, TRUE)]}

\* Bodies of POST /print/receipt when requests overlap.
ReceiptBodies ==
  {Order(Undefined, TRUE, <<Cola, Rabatt>>, "5,95", "01.09.2023", "4711",
         Undefined, Undefined),
   Order("BON", TRUE, <<NoName, Zahlungsart>>, Undefined, Undefined, "4711",
         Undefined, "PC858_EURO"),
   Order(Undefined, FALSE, <<>>, "5,95", Undefined, Undefined, "Danke", Undefined)}

\* Inputs of POST /print/receipt when one receipt is rendered, each a body
\* and whether printQR throws: every item list (the short ones over more
\* names) with a total or none, and a few lists with every optional field
\* present or absent.
RenderInputs ==
  {<<Order(Undefined, TRUE, l, t, "01.09.2023", "4711", Undefined, Undefined), FALSE>> :
     l \in ItemLists(Items, MaxItems) \cup ItemLists(MoreItems, 2),
     t \in {Undefined, "5,95"}}
  \cup
  {<<Order(Undefined, a, l, t, "01.09.2023", n, f, Undefined), q>> :
     a \in BOOLEAN, l \in {<<Cola>>, <<Cola, Rabatt, Rueckgeld>>},
     t \in {Undefined, "5,95"}, n \in {Undefined, "4711"},
     f \in {Undefined, "Danke"}, q \in BOOLEAN}

\* Bodies of POST /print/deposit.
DepositBodies ==
  {Order(Undefined, TRUE, <<Cola>>, "0,25", "01.09.2023", "4711", Undefined,
         Undefined),
   Order("PFAND", TRUE, <<NoName, Bier>>, Undefined, Undefined, Undefined, Undefined,
         Undefined),
   Order(Undefined, FALSE, <<>>, "0,25", Undefined, "4006381333931", Undefined,
         Undefined)}

\* Bodies of POST /print/barcode.
BarcodeBodies ==
  {[id |-> i] : i \in {Undefined, NumberValue, "42", "400638133393",
                       "4006-3813-3393-1"}}

(***************************************************************************)
(* Requests that overlap: up to MaxReq requests, each to any route of the  *)
(* running file.                                                           *)
(***************************************************************************)
Next ==
  \/ \E r \in Reqs : Arrives(r) /\ \E b \in PrintBodies : PrintHandler(r, b)
  \/ \E r \in Reqs, o \in ExecOutcomes : PrintResume(r, o)
  \/ \E r \in Reqs : Arrives(r) /\ \E b \in ReceiptBodies, f \in BOOLEAN :
        ReceiptHandlerIndex(r, b, f)
  \/ \E r \in Reqs, o \in ExecOutcomes : ReceiptResumeIndex(r, o)
  \/ \E r \in Reqs : Arrives(r) /\ \E b \in ReceiptBodies, f \in BOOLEAN :
        ReceiptHandlerPart(r, b, f)
  \/ \E r \in Reqs, o \in ExecOutcomes : ReceiptResumePart(r, o)
  \/ \E r \in Reqs : Arrives(r) /\ \E b \in DepositBodies, f \in BOOLEAN :
        DepositHandler(r, b, f)
  \/ \E r \in Reqs, o \in ExecOutcomes : DepositResume(r, o)
  \/ \E r \in Reqs : Arrives(r) /\ \E b \in BarcodeBodies, f \in BOOLEAN :
        BarcodeHandler(r, b, f)
  \/ \E r \in Reqs, o \in ExecOutcomes : BarcodeResume(r, o)

Spec == Init /\ [][Next]_vars

(***************************************************************************)
(* One receipt rendered on a fresh process.                                *)
(***************************************************************************)
NextRender ==
  \/ Arrives(1) /\ server = "index" /\ \E i \in RenderInputs :
        ReceiptHandlerIndex(1, i[1], i[2])
  \/ \E o \in RenderOutcomes : ReceiptResumeIndex(1, o)
  \/ Arrives(1) /\ server = "part" /\ \E i \in RenderInputs :
        ReceiptHandlerPart(1, i[1], i[2])
  \/ \E o \in RenderOutcomes : ReceiptResumePart(1, o)

SpecRender == Init /\ [][NextRender]_vars

(***************************************************************************)
(* One deposit slip or one standalone barcode printed by part_000, over    *)
(* identifiers of every number of digits up to MaxDigits, bare or with     *)
(* other characters inserted at any place.                                 *)
(***************************************************************************)
\* A run of n digits.
DigitRun(n) == SubSeq("4006381333931245", 1, n)

\* The characters inserted into an identifier; the last is a backslash
\* followed by D.
NonDigits == {"-", "AB", "\\D"}

\* s with t inserted after its first k characters.
Insert(s, k, t) == SubSeq(s, 1, k) \o t \o SubSeq(s, k + 1, Len(s))

Identifiers ==
  {Undefined, NumberValue}
  \cup {DigitRun(n) : n \in 0..MaxDigits}
  \cup UNION {{Insert(DigitRun(n), k, t) : k \in 0..n, t \in NonDigits} :
               n \in 0..MaxDigits}

\* The body of a deposit slip whose orderNumber is id.
DepositOf(id) ==
  Order(Undefined, TRUE, <<Cola>>, "0,25", "01.09.2023", id, Undefined, Undefined)

NextBarcode ==
  \/ Arrives(1) /\ server = "part" /\ \E id \in Identifiers, f \in BOOLEAN :
        DepositHandler(1, DepositOf(id), f)
  \/ \E o \in RenderOutcomes : DepositResume(1, o)
  \/ Arrives(1) /\ server = "part" /\ \E id \in Identifiers, f \in BOOLEAN :
        BarcodeHandler(1, [id |-> id], f)
  \/ \E o \in RenderOutcomes : BarcodeResume(1, o)

SpecBarcode == Init /\ [][NextBarcode]_vars

(***************************************************************************)
(* Vocabulary of the properties.                                           *)
(***************************************************************************)
\* The requests whose printer.execute() has been called and has not settled.
InFlight == {r \in Reqs : req[r].pc = "executing"}

IsReceipt(r) == req[r].pc # "idle" /\ req[r].handler = "receipt"

\* The LeftRight lines of a sequence that carry a fixed label.
Labels == {"ZWISCHENSUMME:", "GESAMTBETRAG:", "GESAMT:"}

IsItemLine(c) == c.op = "LeftRight" /\ c.a \notin Labels

\* The item lines of a sequence, in order.
ItemLines(seq) == SelectSeq(seq, IsItemLine)

IsSubtotalLine(c) == c.op = "LeftRight" /\ c.a = "ZWISCHENSUMME:"

\* A payment-detail line of part_000 carries the item's name and a colon.
StripColon(a) ==
  IF Len(a) > 0 /\ SubSeq(a, Len(a), Len(a)) = ":"
  THEN SubSeq(a, 1, Len(a) - 1) ELSE a

\* A line as the pair of the item it prints.
LinePair(c) == <<StripColon(c.a), c.b>>
ItemPair(item) == <<item.name, item.price>>

LinePairs(seq) == [i \in 1..Len(seq) |-> LinePair(seq[i])]
ItemPairs(seq) == [i \in 1..Len(seq) |-> ItemPair(seq[i])]

\* The special-item predicate as the specification words it.
ClaimSpecial(name) ==
  \/ Includes(name, "Rabatt")
  \/ Includes(name, "Gutschrift")
  \/ name \in {"Zahlungsart", "Rueckgeld", "Gegeben"}

HasName(item) == item.name # Undefined

\* The skip test of the running handler's first loop.
SkipTest(name) ==
  IF server = "index" THEN IsSpecialIndex(name) ELSE IsDiscountOrMeta(name)

\* The category of a special item.
Category(name) ==
  IF Includes(name, "Rabatt") \/ Includes(name, "Gutschrift") THEN "discount"
  ELSE ToLowerCase(name)

Categories == {"discount", "zahlungsart", "rueckgeld", "gegeben"}

\* The company block.
CompanyLines ==
  {Cmd("Println", t, "") : t \in {"BankLy LLC German Branch",
                                  "Mainzer Landstrasse 55",
                                  "60325 Frankfurt, Germany"}}

Range(seq) == {seq[i] : i \in 1..Len(seq)}

EndsWithCut(seq) == Len(seq) > 0 /\ seq[Len(seq)].op = "Cut"

(***************************************************************************)
(* C1: at most one command sequence is in flight inside printer.execute:   *)
(* a second request's execute does not start before the first has settled. *)
(* The handlers call execute without any queue or lock, so two requests    *)
(* are in flight together.                                                 *)
(***************************************************************************)
C1_AtMostOneInFlight == Cardinality(InFlight) <= 1

(***************************************************************************)
(* C2: the buffer handed to printer.execute holds exactly the commands the *)
(* calling request appended.  POST /print of index.js appends without      *)
(* clearing first.                                                         *)
(***************************************************************************)
C2_HandedIsOwn == \A r \in Reqs : req[r].executed => req[r].handed = req[r].own

(***************************************************************************)
(* C3: after printer.execute settles, with success or with failure, the    *)
(* handler calls printer.clear() before it responds.                       *)
(***************************************************************************)
C3_ClearAfterExecute ==
  \A r \in Reqs : (req[r].pc = "done" /\ req[r].executed) => req[r].cleared

(***************************************************************************)
(* C4: every request that ends in a 500 response calls printer.clear()     *)
(* before the response is sent.                                            *)
(***************************************************************************)
C4_ClearBeforeError ==
  \A r \in Reqs : (req[r].pc = "done" /\ req[r].status = 500) => req[r].cleared

(***************************************************************************)
(* C5: every sequence the receipt, deposit and barcode handlers hand to    *)
(* printer.execute has Cut as its last command.                            *)
(***************************************************************************)
C5_EndsWithCut ==
  \A r \in Reqs :
     (req[r].executed /\ req[r].handler \in {"receipt", "deposit", "barcode"})
        => EndsWithCut(req[r].handed)

\* A receipt with a nameless item whose QR command failed was executed.
C5_Witness ==
  \E r \in Reqs :
     /\ req[r].executed
     /\ req[r].handler = "receipt"
     /\ req[r].fault
     /\ Truthy(req[r].body.orderNumber)
     /\ \A i \in 1..Len(req[r].handed) : req[r].handed[i].op # "PrintQR"
     /\ \E k \in 1..Len(req[r].body.items) : ~HasName(req[r].body.items[k])

(***************************************************************************)
(* C6: a receipt with a discount-marked item (name contains 'Rabatt')      *)
(* holds exactly one subtotal line, carrying the order's total, after      *)
(* every regular-item line and before every special-item line.             *)
(***************************************************************************)
C6_OneSubtotal ==
  LET q == req[1]
      items == q.body.items
      lineOf(c, special) ==
        /\ IsItemLine(c)
        /\ \E k \in 1..Len(items) :
              /\ HasName(items[k])
              /\ ClaimSpecial(items[k].name) = special
              /\ LinePair(c) = ItemPair(items[k])
      sub == {i \in 1..Len(q.handed) : IsSubtotalLine(q.handed[i])}
  IN (/\ IsReceipt(1)
      /\ q.executed
      /\ q.body.itemsIsArray
      /\ \E k \in 1..Len(items) : HasName(items[k]) /\ Includes(items[k].name, "Rabatt"))
     => /\ Cardinality(sub) = 1
        /\ \A i \in sub :
              /\ q.handed[i].b = q.body.total
              /\ \A j \in 1..Len(q.handed) :
                    /\ lineOf(q.handed[j], FALSE) => j < i
                    /\ lineOf(q.handed[j], TRUE) => i < j

(***************************************************************************)
(* C7: a receipt none of whose items is special (discount, credit, payment *)
(* method, change or tendered) holds no subtotal line.                     *)
(***************************************************************************)
C7_NoSubtotalWithoutSpecial ==
  LET q == req[1]
  IN (/\ IsReceipt(1)
      /\ q.executed
      /\ \A k \in 1..Len(q.body.items) :
            HasName(q.body.items[k]) => ~ClaimSpecial(q.body.items[k].name))
     => \A i \in 1..Len(q.handed) : ~IsSubtotalLine(q.handed[i])

\* index.js rendered a receipt of two regular items.
C7_Witness ==
  /\ IsReceipt(1)
  /\ server = "index"
  /\ req[1].executed
  /\ req[1].body.items = <<Cola, Bier>>
  /\ Len(ItemLines(req[1].handed)) = 2

(***************************************************************************)
(* C8 as stated: the regular-item lines appear in the order of the regular *)
(* items of the input, and the special-item lines in the order of the      *)
(* special items of the input.                                             *)
(***************************************************************************)
C8_SpecialOrderPreserved ==
  LET q == req[1]
      named == SelectSeq(q.body.items, HasName)
      lines == ItemLines(q.handed)
  IN (IsReceipt(1) /\ q.executed /\ q.body.itemsIsArray)
     => /\ LinePairs(SelectSeq(lines, LAMBDA c : ~SkipTest(StripColon(c.a))))
           = ItemPairs(SelectSeq(named, LAMBDA it : ~SkipTest(it.name)))
        /\ LinePairs(SelectSeq(lines, LAMBDA c : SkipTest(StripColon(c.a))))
           = ItemPairs(SelectSeq(named, LAMBDA it : SkipTest(it.name)))

(***************************************************************************)
(* C8 as amended: the lines of the items the handler treats as regular     *)
(* (those that fail the skip test of its first loop) appear in the order   *)
(* of those items in the input, and the lines of the special items of one  *)
(* category (discount or credit, payment method, change, tendered) appear  *)
(* in the order of those items in the input.                               *)
(***************************************************************************)
C8_OrderPreservedPerCategory ==
  LET q == req[1]
      named == SelectSeq(q.body.items, HasName)
      lines == ItemLines(q.handed)
  IN (IsReceipt(1) /\ q.executed /\ q.body.itemsIsArray)
     => /\ LinePairs(SelectSeq(lines, LAMBDA c : ~SkipTest(StripColon(c.a))))
           = ItemPairs(SelectSeq(named, LAMBDA it : ~SkipTest(it.name)))
        /\ \A cat \in Categories :
              LinePairs(SelectSeq(lines, LAMBDA c : /\ SkipTest(StripColon(c.a))
                                                /\ Category(StripColon(c.a)) = cat))
              = ItemPairs(SelectSeq(named, LAMBDA it : /\ SkipTest(it.name)
                                                   /\ Category(it.name) = cat))

\* A receipt with two regular items and a discount between them, and one
\* with two discounts around a payment method, were rendered.
C8_Witness ==
  /\ IsReceipt(1)
  /\ req[1].executed
  /\ req[1].body.items \in {<<Bier, Rabatt, Cola>>, <<Rabatt, Zahlungsart, Rabatt>>}
  /\ Len(ItemLines(req[1].handed)) = 3

(***************************************************************************)
(* C9: a receipt item that lacks a name produces no item line and never    *)
(* aborts the receipt: the request reaches printer.execute whenever the    *)
(* same order without the nameless items does, every item that has a name  *)
(* is rendered, and the sequence goes on to the total line (when the order *)
(* has a total), the company block and Cut.                                *)
(***************************************************************************)
C9_NamelessItemSkipped ==
  LET q == req[1]
      named == SelectSeq(q.body.items, HasName)
      rest == [q.body EXCEPT !.items = named]
      ref == IF server = "index" THEN BuildReceiptIndex(rest, q.fault)
             ELSE BuildReceiptPart(rest, q.fault)
      lines == ItemLines(q.handed)
  IN (/\ IsReceipt(1)
      /\ q.body.itemsIsArray
      /\ \E k \in 1..Len(q.body.items) : ~HasName(q.body.items[k]))
     => /\ ~ref.threw => q.executed
        /\ q.executed =>
              /\ Len(lines) = Len(named)
              /\ \A k \in 1..Len(named) :
                    \E i \in 1..Len(lines) : LinePair(lines[i]) = ItemPair(named[k])
              /\ Truthy(q.body.total) =>
                    \E i \in 1..Len(q.handed) :
                       /\ q.handed[i].op = "LeftRight"
                       /\ q.handed[i].a \in {"GESAMTBETRAG:", "GESAMT:"}
                       /\ q.handed[i].b = q.body.total
              /\ CompanyLines \subseteq Range(q.handed)
              /\ EndsWithCut(q.handed)

\* A receipt with a nameless item between two named ones was executed.
C9_Witness ==
  /\ IsReceipt(1)
  /\ req[1].executed
  /\ req[1].body.items = <<Cola, NoName, Rabatt>>
  /\ Truthy(req[1].body.total)

(***************************************************************************)
(* C10 as stated: a receipt whose 3-item list holds one item with an empty *)
(* name and two well-formed regular items renders exactly 2 item lines.    *)
(***************************************************************************)
IsRegularItem(item) ==
  HasName(item) /\ item.name # "" /\ ~ClaimSpecial(item.name) /\ ~SkipTest(item.name)

\* A 3-item list of one item named `name` and two well-formed regular items.
OneBadOfThree(items, name) ==
  /\ Len(items) = 3
  /\ Cardinality({k \in 1..3 : items[k].name = name}) = 1
  /\ Cardinality({k \in 1..3 : IsRegularItem(items[k])}) = 2

C10_EmptyNameSkipped ==
  (IsReceipt(1) /\ req[1].body.itemsIsArray /\ OneBadOfThree(req[1].body.items, ""))
  => /\ req[1].executed
     /\ Len(ItemLines(req[1].handed)) = 2

(***************************************************************************)
(* C10 as amended: a receipt whose 3-item list holds one item whose name   *)
(* is missing and two well-formed regular items is executed with exactly 2 *)
(* item lines; an item whose name is the empty string is not skipped, it   *)
(* is printed as a line with an empty left column, 3 item lines in all.    *)
(***************************************************************************)
C10_MissingNameSkipped ==
  /\ (/\ IsReceipt(1)
      /\ req[1].body.itemsIsArray
      /\ OneBadOfThree(req[1].body.items, Undefined))
     => /\ req[1].executed
        /\ Len(ItemLines(req[1].handed)) = 2
  /\ (/\ IsReceipt(1)
      /\ req[1].body.itemsIsArray
      /\ OneBadOfThree(req[1].body.items, ""))
     => /\ req[1].executed
        /\ Len(ItemLines(req[1].handed)) = 3

\* A 3-item receipt whose first item has no name was executed.
C10_Witness ==
  /\ IsReceipt(1)
  /\ req[1].executed
  /\ req[1].body.items = <<NoName, Cola, Bier>>
  /\ Len(ItemLines(req[1].handed)) = 2


(***************************************************************************)
(* Vocabulary of the later properties.                                     *)
(***************************************************************************)
\* The total line of a receipt carrying `total`.
IsTotalLine(c, total) ==
  c.op = "LeftRight" /\ c.a \in {"GESAMTBETRAG:", "GESAMT:"} /\ c.b = total

\* A LeftRight line with one of the fixed labels.
IsLabelLine(c) ==
  c.op = "LeftRight"
  /\ c.a \in {"ZWISCHENSUMME:", "GESAMTBETRAG:", "GESAMT:", "GESAMT PFAND:"}

Has(seq, op) == \E i \in 1..Len(seq) : seq[i].op = op

(***************************************************************************)
(* C11: when printQR throws on a receipt that carries a total, the handler *)
(* still calls printer.execute, with a sequence that ends in Cut and holds *)
(* the total line and the three company lines.                             *)
(***************************************************************************)
C11_QRFailureStillPrints ==
  LET q == req[1]
  IN (IsReceipt(1) /\ q.fault /\ Truthy(q.body.total))
     => /\ q.executed
        /\ EndsWithCut(q.handed)
        /\ \E i \in 1..Len(q.handed) : IsTotalLine(q.handed[i], q.body.total)
        /\ CompanyLines \subseteq Range(q.handed)

\* A receipt with an order number, special items and a total was executed
\* after printQR threw: the sequence holds no QR command.
C11_Witness ==
  /\ IsReceipt(1)
  /\ req[1].fault
  /\ req[1].executed
  /\ req[1].body.items = <<Cola, Rabatt, Rueckgeld>>
  /\ Truthy(req[1].body.orderNumber)
  /\ Truthy(req[1].body.total)
  /\ ~Has(req[1].handed, "PrintQR")


(***************************************************************************)
(* C12: a receipt sequence holds a PrintQR command if and only if the      *)
(* request carries an orderNumber, and its data is then "RECEIPT:"         *)
(* followed by the orderNumber.  The receipts on which printQR threw are   *)
(* left aside: they hold no QR command whatever the request carries.       *)
(* index.js calls printQR whether or not orderNumber is present.           *)
(***************************************************************************)
C12_QRIffOrderNumber ==
  LET q == req[1]
      qr == {i \in 1..Len(q.handed) : q.handed[i].op = "PrintQR"}
  IN (IsReceipt(1) /\ q.executed /\ ~q.fault)
     => /\ (qr # {}) <=> (q.body.orderNumber # Undefined)
        /\ \A i \in qr : q.handed[i].a = "RECEIPT:" \o q.body.orderNumber


(***************************************************************************)
(* C13: rendering a receipt is deterministic.  Two receipt requests with   *)
(* the same body (and the same fate of printQR) hand the same commands and *)
(* the same character set to printer.execute, and both are what the same   *)
(* request hands over as the first request of a fresh process, whatever    *)
(* was handled before or is in flight.  The character set a request of     *)
(* index.js sets with printerConfig stays set for the requests after it.   *)
(***************************************************************************)
C13_Deterministic ==
  LET Fresh(r) ==
        Run(NewPrinter(server),
            (IF server = "index"
             THEN BuildReceiptIndex(req[r].body, req[r].fault)
             ELSE BuildReceiptPart(req[r].body, req[r].fault)).calls)
      Rendered == {r \in Reqs : req[r].handler = "receipt" /\ req[r].executed}
  IN /\ \A r1, r2 \in Rendered :
          (req[r1].body = req[r2].body /\ req[r1].fault = req[r2].fault)
             => /\ req[r1].handed = req[r2].handed
                /\ req[r1].charset = req[r2].charset
     /\ \A r \in Rendered :
          /\ req[r].handed = Fresh(r).buffer
          /\ req[r].charset = Fresh(r).characterSet


(***************************************************************************)
(* Vocabulary of the barcode properties.                                   *)
(***************************************************************************)
IsBarcodeRequest(r) == req[r].pc # "idle" /\ req[r].handler \in {"deposit", "barcode"}

\* The identifier a deposit slip or a standalone barcode request carries.
Identifier(r) ==
  IF req[r].handler = "deposit" THEN req[r].body.orderNumber ELSE req[r].body.id

\* The data of the PrintBarcode commands a request appended.
BarcodeData(r) ==
  {req[r].own[i].a : i \in {j \in 1..Len(req[r].own) : req[r].own[j].op = "PrintBarcode"}}

AllDigits(s) == \A i \in 1..Len(s) : IsDigit(SubSeq(s, i, i))

\* The digits of an identifier, in order.
DigitsOf(id) == RemoveNonDigits(id)

(***************************************************************************)
(* C14: every PrintBarcode command of the deposit slip and of the          *)
(* standalone barcode carries exactly 12 characters, all decimal digits.   *)
(* The deposit slip's replace(/\\D/g, '') removes the two characters      *)
(* backslash and D, not the non-digits.                                    *)
(***************************************************************************)
C14_BarcodeTwelveDigits ==
  IsBarcodeRequest(1)
  => \A d \in BarcodeData(1) : Len(d) = 12 /\ AllDigits(d)


(***************************************************************************)
(* C15: the barcode value depends only on the digits of the identifier.    *)
(* An identifier with 13 digits yields its first 12, and the value is the  *)
(* one the same operation computes for the digits alone, whatever other    *)
(* characters the identifier holds.  Fails on the deposit slip for the     *)
(* reason C14 does.                                                        *)
(***************************************************************************)
C15_DependsOnDigitsOnly ==
  LET id == Identifier(1)
      d == DigitsOf(id)
  IN (IsBarcodeRequest(1) /\ IsString(id) /\ BarcodeData(1) # {})
     => /\ Len(d) = 13 => BarcodeData(1) = {SubSeq(d, 1, 12)}
        /\ BarcodeData(1) = {IF req[1].handler = "deposit"
                             THEN BarcodeValueDeposit(d)
                             ELSE BarcodeValueBarcode(d)}

(***************************************************************************)
(* C16: an identifier with at least one and fewer than 12 digits yields a  *)
(* barcode of those digits left-padded with '0' to 12, on the deposit slip *)
(* and on the standalone barcode (printBarcode not throwing).  The         *)
(* standalone barcode answers 400 instead, and the deposit slip pads what  *)
(* its replace left, non-digits included.                                  *)
(***************************************************************************)
C16_ShortIdsPadded ==
  LET id == Identifier(1)
      d == DigitsOf(id)
  IN (/\ IsBarcodeRequest(1)
      /\ IsString(id)
      /\ ~req[1].fault
      /\ Len(d) >= 1
      /\ Len(d) < 12)
     => BarcodeData(1) = {PadStart(d, 12)}

(***************************************************************************)
(* C17: an identifier without any digit yields no barcode: the deposit     *)
(* slip is executed without a PrintBarcode command and ends in Cut, the    *)
(* standalone barcode answers 400.  The deposit slip pads such an          *)
(* identifier with zeros and prints it.                                    *)
(***************************************************************************)
C17_NoBarcodeWithoutDigits ==
  LET id == Identifier(1)
  IN (IsBarcodeRequest(1) /\ IsString(id) /\ DigitsOf(id) = "")
     => /\ BarcodeData(1) = {}
        /\ req[1].handler = "deposit"
              => req[1].executed /\ EndsWithCut(req[1].handed)
        /\ req[1].handler = "barcode" => req[1].status = 400


(***************************************************************************)
(* C18: a standalone barcode request whose id is missing, is not a string  *)
(* or does not clean to 12 or 13 digits is answered with status 400 in the *)
(* step in which it arrives; that step leaves the shared printer (buffer   *)
(* and settings) as it was and does not call printer.execute.              *)
(***************************************************************************)
Unnormalizable(id) ==
  \/ ~Truthy(id)
  \/ ~IsString(id)
  \/ Len(DigitsOf(id)) \notin {12, 13}

C18_RejectedLeavesPrinter ==
  [][\A r \in Reqs :
        (/\ req[r].pc = "idle"
         /\ req'[r].handler = "barcode"
         /\ Unnormalizable(req'[r].body.id))
        => /\ req'[r].pc = "done"
           /\ req'[r].status = 400
           /\ ~req'[r].executed
           /\ printer' = printer]_vars

\* A barcode request was rejected while another request awaited execute
\* with its commands in the shared buffer.
C18_Witness ==
  \E r, q \in Reqs :
     /\ req[r].handler = "barcode"
     /\ req[r].status = 400
     /\ req[r].body.id = "42"
     /\ req[q].pc = "executing"
     /\ printer.buffer = req[q].handed
     /\ printer.buffer # <<>>


(***************************************************************************)
(* C19: a receipt or a deposit slip whose order lacks total is rendered to *)
(* completion: printer.execute is called with a sequence that ends in Cut  *)
(* and holds no subtotal line and no total line.  index.js prints the      *)
(* subtotal of a receipt with a special item without testing total, and    *)
(* leftRight throws on it.                                                 *)
(***************************************************************************)
C19_MissingTotalRenders ==
  \A r \in Reqs :
     (/\ req[r].pc # "idle"
      /\ req[r].handler \in {"receipt", "deposit"}
      /\ req[r].body.total = Undefined)
     => /\ req[r].executed
        /\ EndsWithCut(req[r].handed)
        /\ \A i \in 1..Len(req[r].handed) : ~IsLabelLine(req[r].handed[i])


(***************************************************************************)
(* C20: a handler runs from its printer.clear() to its call of             *)
(* printer.execute in one step.  The step in which a receipt, deposit or   *)
(* barcode request arrives takes it to its await or to its response,       *)
(* changes no other request, and when it calls execute the shared buffer   *)
(* holds the commands of this request alone, whatever the requests in      *)
(* flight had left in it.                                                  *)
(***************************************************************************)
C20_BuildUninterrupted ==
  [][\A r \in Reqs :
        (req[r].pc = "idle" /\ req'[r].handler \in {"receipt", "deposit", "barcode"})
        => /\ req'[r].pc \in {"executing", "done"}
           /\ \A q \in Reqs \ {r} : req'[q] = req[q]
           /\ req'[r].executed
                => /\ req'[r].handed = req'[r].own
                   /\ printer'.buffer = req'[r].own]_vars

\* Two requests are in flight, and the second was handed its own commands
\* although the first had left other commands in the buffer.
C20_Witness ==
  /\ req[1].pc = "executing"
  /\ req[2].pc = "executing"
  /\ req[2].handler \in {"receipt", "deposit", "barcode"}
  /\ req[1].handed # <<>>
  /\ req[1].handed # req[2].handed
  /\ req[2].handed = req[2].own


(***************************************************************************)
(* Vocabulary of the layout properties.                                    *)
(***************************************************************************)
\* The positions of a sequence that hold one of the commands of a set.
PosOf(seq, cmds) == {i \in 1..Len(seq) : seq[i] \in cmds}

\* Every position of A comes before every position of B.
Before(A, B) == \A i \in A, j \in B : i < j

\* The sections of the receipt of request r, in the order of the layout:
\* header, order info, items, total, tax note, company block, footer, QR,
\* cut.  Each is the set of the positions its commands take in the sequence.
Sections(r) ==
  LET seq == req[r].handed
      b == req[r].body
      Line(t) == Cmd("Println", t, "")
  IN << PosOf(seq, {Line(IF Truthy(b.title) THEN b.title ELSE "KAUFBELEG")}),
        PosOf(seq, {Line("Beleg-Nr.: " \o Str(b.orderNumber)),
                    Line("Datum: " \o Str(b.date))}),
        {i \in 1..Len(seq) : IsItemLine(seq[i])},
        {i \in 1..Len(seq) : IsTotalLine(seq[i], b.total)},
        PosOf(seq, {Line("Enthaltene MwSt. 19%")}),
        PosOf(seq, CompanyLines),
        PosOf(seq, {Line(Str(b.footerText))}),
        {i \in 1..Len(seq) : seq[i].op = "PrintQR"},
        {i \in 1..Len(seq) : seq[i].op = "Cut"} >>

(***************************************************************************)
(* C21: in every receipt sequence the sections come in the order header,   *)
(* order info, items, total, tax note, company block, footer, QR, Cut; so  *)
(* with footerText and orderNumber present the footer line comes after the *)
(* company block and before the PrintQR command.  part_000 prints the QR   *)
(* block before the footer.                                                *)
(***************************************************************************)
C21_LayoutOrder ==
  (IsReceipt(1) /\ req[1].executed)
  => \A a, b \in 1..Len(Sections(1)) :
        a < b => Before(Sections(1)[a], Sections(1)[b])


(***************************************************************************)
(* C22: in a receipt with special items every discount or credit line      *)
(* comes before every payment-method line, which comes before every change *)
(* or tendered line, whatever their order in the input, and a DrawLine     *)
(* stands between the lines of one pass and those of the next.  index.js   *)
(* draws no line between its payment and change passes and prints          *)
(* 'Gegeben' with the regular items; part_000 prints the special items in  *)
(* one pass, in input order.                                               *)
(***************************************************************************)
\* The pass a special-item line belongs to; 0 for a regular line.
PassOf(c) ==
  LET name == StripColon(c.a)
  IN IF Includes(name, "Rabatt") \/ Includes(name, "Gutschrift") THEN 1
     ELSE IF name = "Zahlungsart" THEN 2
     ELSE IF name \in {"Rueckgeld", "Gegeben"} THEN 3
     ELSE 0

C22_ThreePasses ==
  LET seq == req[1].handed
      Pass(n) == {i \in 1..Len(seq) : IsItemLine(seq[i]) /\ PassOf(seq[i]) = n}
      Separated(A, B) ==
        \A i \in A, j \in B :
           i < j /\ \E k \in (i + 1)..(j - 1) : seq[k].op = "DrawLine"
  IN (IsReceipt(1) /\ req[1].executed)
     => /\ Separated(Pass(1), Pass(2))
        /\ Separated(Pass(2), Pass(3))
        /\ Separated(Pass(1), Pass(3))


(***************************************************************************)
(* C23: an item is treated as special (kept out of the regular block and   *)
(* printed in the deferred block) exactly when its name contains 'Rabatt', *)
(* contains 'Gutschrift' or equals 'Zahlungsart', 'Rueckgeld' or 'Gegeben' *)
(* under one case rule, and both receipt handlers apply that predicate.    *)
(* index.js compares exactly and has no 'Gegeben'; part_000 compares the   *)
(* lower-cased name.                                                       *)
(***************************************************************************)
\* The predicate of the claim with the labels compared without case.
ClaimSpecialFold(name) ==
  \/ Includes(name, "Rabatt")
  \/ Includes(name, "Gutschrift")
  \/ ToLowerCase(name) \in {"zahlungsart", "rueckgeld", "gegeben"}

\* The deferred block opens with the subtotal line (index.js) or with the
\* separator drawLine('-') (part_000).
OpensDeferred(c) == IsSubtotalLine(c) \/ c = Cmd("DrawLine", "-", "")

\* The line of the item stands in the deferred block of the sequence.
TreatedSpecial(seq, item) ==
  \E b, i \in 1..Len(seq) :
     /\ b < i
     /\ OpensDeferred(seq[b])
     /\ IsItemLine(seq[i])
     /\ LinePair(seq[i]) = ItemPair(item)

C23_OneSpecialPredicate ==
  LET q == req[1]
      named == SelectSeq(q.body.items, HasName)
      Follows(rule(_)) ==
        \A k \in 1..Len(named) :
           TreatedSpecial(q.handed, named[k]) = rule(named[k].name)
  IN (IsReceipt(1) /\ q.executed /\ q.body.itemsIsArray)
     => /\ \A k \in 1..Len(named) :
             IsSpecialIndex(named[k].name) = IsDiscountOrMeta(named[k].name)
        /\ Follows(ClaimSpecial) \/ Follows(ClaimSpecialFold)


(***************************************************************************)
(* C24: the deposit slip and the standalone barcode normalize alike: for   *)
(* every identifier string either both emit a PrintBarcode command with    *)
(* the same data or neither emits one.  The barcode data of a request is   *)
(* compared with what the other operation emits for its identifier         *)
(* (printBarcode not throwing).  The deposit slip pads short identifiers   *)
(* and keeps the last 12 characters of long ones, the standalone barcode   *)
(* rejects both.                                                           *)
(***************************************************************************)
\* The barcode data the deposit slip emits for an identifier string.
DepositEmits(id) == IF Truthy(id) THEN {BarcodeValueDeposit(id)} ELSE {}

\* The barcode data the standalone barcode emits for an identifier string.
BarcodeEmits(id) ==
  IF IdAccepted(id) /\ LengthAccepted(id) THEN {BarcodeValueBarcode(id)} ELSE {}

C24_UniformNormalization ==
  LET id == Identifier(1)
  IN (IsBarcodeRequest(1) /\ IsString(id) /\ ~req[1].fault)
     => BarcodeData(1) = IF req[1].handler = "deposit"
                         THEN BarcodeEmits(id) ELSE DepositEmits(id)


(***************************************************************************)
(* C25: in every receipt each item of the list that has a name and a price *)
(* yields exactly one item line: the lines that print an item are as many  *)
(* as the items of the list equal to it, and the receipt holds no other    *)
(* item line.  The skip test of the first loop and the tests of the        *)
(* deferred loops select complementary sets of items.                      *)
(***************************************************************************)
C25_EachItemOneLine ==
  LET q == req[1]
      items == q.body.items
      lines == ItemLines(q.handed)
      Priced == {k \in 1..Len(items) :
                   HasName(items[k]) /\ items[k].price # Undefined}
  IN (IsReceipt(1) /\ q.executed /\ q.body.itemsIsArray)
     => /\ \A k \in Priced :
             Cardinality({i \in 1..Len(lines) : LinePair(lines[i]) = ItemPair(items[k])})
             = Cardinality({j \in Priced : ItemPair(items[j]) = ItemPair(items[k])})
        /\ Len(lines) = Cardinality(Priced)

\* index.js printed a receipt that lists the same discount twice around a
\* regular item: three item lines.
C25_Witness ==
  /\ IsReceipt(1)
  /\ server = "index"
  /\ req[1].executed
  /\ req[1].body.items = <<Rabatt, Cola, Rabatt>>
  /\ Len(ItemLines(req[1].handed)) = 3


(***************************************************************************)
(* C26: when printer.execute fails with code ECONNREFUSED the response of  *)
(* the receipt and deposit handlers carries the 'printer unreachable'      *)
(* message, and with code EPERM the 'no permission' message.  The handlers *)
(* catch a failed execute in the inner try, which reports the error's own  *)
(* message; the dedicated messages are in the outer catch only.            *)
(***************************************************************************)
C26_DedicatedMessages ==
  \A r \in Reqs :
     (req[r].pc = "done" /\ req[r].handler \in {"receipt", "deposit"})
     => /\ req[r].outcome = "ECONNREFUSED"
             => req[r].error \in {OuterCatchIndex(ExecError("ECONNREFUSED")),
                                  OuterCatchPart(ExecError("ECONNREFUSED"), "")}
        /\ req[r].outcome = "EPERM"
             => req[r].error = "Keine Berechtigung zum Zugriff auf den Drucker."

====
